---------------------------- MODULE Spec2Model ----------------------------
(***************************************************************************)
(* Feature ledger tools of fwdslsh/pace (docs/examples):                   *)
(*   update_feature.py    - Mutate: load, look up, back up, overwrite      *)
(*   show_status.py       - get_next_features (NextFeature)                *)
(*   validate_features.py - validate_feature_list (Validator)              *)
(*                                                                         *)
(* JSON objects (Python dicts) are functions whose DOMAIN is the set of    *)
(* keys present; a missing key is a key outside the DOMAIN.  A file is a   *)
(* record: absent, empty (just truncated), partial (a cut-off dump) or a   *)
(* JSON text with its layout (fmt) and the document it parses to.          *)
(***************************************************************************)
EXTENDS Integers, Sequences, FiniteSets, TLC

(* ----------------------------- bounds ---------------------------------- *)
\* longest feature list of an initial ledger in the Mutate specifications
MaxFeatures == 2
\* number of distinct values datetime.now() can return
NumTimes == 2
\* number of invocations that may be in flight at once
NumProcs == 2
\* longest feature list of a ledger shown by show_status.py
MaxShown == 3
\* longest feature list of a ledger given to validate_features.py
MaxValidated == 3

Ids == {"F001", "F002"}
UnknownId == "F999"
Times == 1..NumTimes
Procs == 1..NumProcs
\* the single driving process of the serialized specifications
Driver == 1

(* --------------------------- JSON values ------------------------------- *)
\* a scalar or list member of a JSON object, tagged with its Python type
JStr(s) == [t |-> "str", v |-> s]
JBool(b) == [t |-> "bool", v |-> b]
JInt(n) == [t |-> "int", v |-> n]
JList(s) == [t |-> "list", v |-> s]
JNull == [t |-> "null"]

\* bool(x)
PyTruthy(x) ==
    CASE x.t = "bool" -> x.v
      [] x.t = "int" -> x.v # 0
      [] x.t = "str" -> x.v # ""
      [] x.t = "list" -> x.v # <<>>
      [] OTHER -> FALSE

\* x == b for a Python bool b (True == 1 and False == 0)
PyEqBool(x, b) ==
    \/ x.t = "bool" /\ x.v = b
    \/ x.t = "int" /\ x.v = (IF b THEN 1 ELSE 0)

\* x == s for a Python str s
PyEqStr(x, s) == x.t = "str" /\ x.v = s

(* ------------------------- dicts and lists ----------------------------- *)
EmptyDict == [k \in {} |-> 0]

\* d[k] = v
DictSet(d, k, v) == [x \in (DOMAIN d) \cup {k} |-> IF x = k THEN v ELSE d[x]]

\* d.get(k, default)
Get(d, k, default) == IF k \in DOMAIN d THEN d[k] ELSE default

SeqsUpTo(S, n) == UNION {[1..k -> S] : k \in 0..n}

Min(S) == CHOOSE x \in S : \A y \in S : x <= y

(* ------------------------------ files ---------------------------------- *)
AbsentFile == [kind |-> "absent"]
EmptyFile == [kind |-> "empty"]
PartialFile == [kind |-> "partial"]
TextFile(fmt, doc) == [kind |-> "json", fmt |-> fmt, doc |-> doc]

\* json.load(f) succeeds on a complete JSON text only
Parses(file) == file.kind = "json"
json_load(file) == file.doc

\* json.dump(data, f, indent=2): the text is laid out afresh
json_dump(data) == TextFile("indent2", data)

\* the characters of the literal of an int
RECURSIVE digits(_)
digits(n) == IF n < 0 THEN 1 + digits(0 - n) ELSE IF n < 10 THEN 1 ELSE 1 + digits(n \div 10)

\* the characters of a member that is no list: "text", true, false, 12, null
atom_len(x) ==
    CASE x.t = "str" -> Len(x.v) + 2
      [] x.t = "bool" -> (IF x.v THEN 4 ELSE 5)
      [] x.t = "int" -> digits(x.v)
      [] OTHER -> 4

\* what json.dump(indent=2) writes around the items of a list or dict that
\* stands depth levels deep: "[]" for none, else the brackets, a line break
\* and an indent before each item, the commas between them, and a line break
\* and an indent before the closing bracket
layout_len(n, depth) ==
    IF n = 0 THEN 2
    ELSE 1 + n * (1 + 2 * (depth + 1)) + (n - 1) + 1 + 2 * depth + 1

\* the characters of the items of a list of atoms, from the i-th on
RECURSIVE atoms_len(_, _)
atoms_len(items, i) ==
    IF i > Len(items) THEN 0 ELSE atom_len(items[i]) + atoms_len(items, i + 1)

\* the characters of a member of a feature or of the metadata
member_len(x, depth) ==
    IF x.t = "list" THEN layout_len(Len(x.v), depth) + atoms_len(x.v, 1)
    ELSE atom_len(x)

\* the characters of the items "key": value of a dict of members, for keys
RECURSIVE items_len(_, _, _)
items_len(d, keys, depth) ==
    IF keys = {} THEN 0
    ELSE LET k == CHOOSE x \in keys : TRUE
         IN  Len(k) + 4 + member_len(d[k], depth + 1) + items_len(d, keys \ {k}, depth)

\* the characters of a feature or of the metadata
object_len(d, depth) ==
    layout_len(Cardinality(DOMAIN d), depth) + items_len(d, DOMAIN d, depth)

\* the characters of the features of a list, from the i-th on
RECURSIVE objects_len(_, _, _)
objects_len(features, i, depth) ==
    IF i > Len(features) THEN 0
    ELSE object_len(features[i], depth + 1) + objects_len(features, i + 1, depth)

\* the characters of the top-level items, "features" a list and any other a dict
RECURSIVE top_len(_, _)
top_len(data, keys) ==
    IF keys = {} THEN 0
    ELSE LET k == CHOOSE x \in keys : TRUE
         IN  Len(k) + 4
             + (IF k = "features"
                THEN layout_len(Len(data[k]), 1) + objects_len(data[k], 1, 1)
                ELSE object_len(data[k], 1))
             + top_len(data, keys \ {k})

\* len(json.dumps(data, indent=2)) of a ledger document
text_len(data) == layout_len(Cardinality(DOMAIN data), 0) + top_len(data, DOMAIN data)

\* a file holding a dump followed by the tail of a longer text written before
MixedFile(len) == [kind |-> "mixed", len |-> len]

\* the characters a file holds; a dump cut off part way lost at least one
file_len(file) ==
    CASE file.kind = "json" -> text_len(file.doc)
      [] file.kind = "mixed" -> file.len
      [] file.kind = "partial" -> 1
      [] OTHER -> 0

\* line 39 as the file sees it: the text is written from the start of the file
\* over what is there; the writer truncated at its own open only, so a longer
\* text written by another writer since then keeps its tail
written_over(file, data) ==
    IF file_len(file) > text_len(data) THEN MixedFile(file_len(file)) ELSE json_dump(data)

\* datetime.now().isoformat()
isoformat(now) == "T" \o ToString(now)

(* ------------------------- update_feature.py --------------------------- *)
\* data.get('features', [])
features_of(data) == Get(data, "features", <<>>)

\* f.get('passes') used as a condition
passes_truthy(f) == "passes" \in DOMAIN f /\ PyTruthy(f["passes"])

\* sum(1 for f in features if f.get('passes'))
count_passing(features) ==
    Cardinality({i \in DOMAIN features : passes_truthy(features[i])})

\* sum(1 for f in features if not f.get('passes'))
count_failing(features) ==
    Cardinality({i \in DOMAIN features : ~passes_truthy(features[i])})

\* the indexes of the features with feature.get('id') == feature_id
Matches(data, feature_id) ==
    {i \in DOMAIN features_of(data) :
        /\ "id" \in DOMAIN features_of(data)[i]
        /\ PyEqStr(features_of(data)[i]["id"], feature_id)}

\* a slip: the loop variable is returned when the loop ends without a match
find_feature_last(data, feature_id) ==
    IF Matches(data, feature_id) = {} THEN Len(features_of(data))
    ELSE Min(Matches(data, feature_id))

\* find_feature: the index of the first match, 0 for (None, None)
find_feature(data, feature_id) ==
    IF Matches(data, feature_id) = {} THEN 0 ELSE Min(Matches(data, feature_id))

\* a slip: the comparison with the current status is left out
already_set_never(feature, passes) == FALSE

\* feature.get('passes', False) == passes
already_set(feature, passes) == PyEqBool(Get(feature, "passes", JBool(FALSE)), passes)

\* a slip: failing counts only the features whose passes is False itself
update_metadata_explicit(data, now) ==
    LET d1 == IF "metadata" \in DOMAIN data THEN data
              ELSE DictSet(data, "metadata", EmptyDict)
        passing == count_passing(features_of(d1))
        failing == Cardinality({i \in DOMAIN features_of(d1) :
                                   /\ "passes" \in DOMAIN features_of(d1)[i]
                                   /\ features_of(d1)[i]["passes"] = JBool(FALSE)})
        total == Len(features_of(d1))
        m1 == DictSet(d1["metadata"], "total_features", JInt(total))
        m2 == DictSet(m1, "passing", JInt(passing))
        m3 == DictSet(m2, "failing", JInt(failing))
        m4 == DictSet(m3, "last_updated", JStr(isoformat(now)))
    IN  DictSet(d1, "metadata", m4)

\* update_metadata(data) with datetime.now() = now
update_metadata(data, now) ==
    LET d1 == IF "metadata" \in DOMAIN data THEN data
              ELSE DictSet(data, "metadata", EmptyDict)
        passing == count_passing(features_of(d1))
        failing == count_failing(features_of(d1))
        total == Len(features_of(d1))
        m1 == DictSet(d1["metadata"], "total_features", JInt(total))
        m2 == DictSet(m1, "passing", JInt(passing))
        m3 == DictSet(m2, "failing", JInt(failing))
        m4 == DictSet(m3, "last_updated", JStr(isoformat(now)))
    IN  DictSet(d1, "metadata", m4)

\* a slip: the record is replaced by a fresh one holding id and passes only
set_passes_replace(data, index, passes) ==
    DictSet(data, "features",
            [features_of(data) EXCEPT
                ![index] = DictSet([k \in DOMAIN @ \cap {"id"} |-> @[k]], "passes", JBool(passes))])

\* data['features'][index]['passes'] = passes
set_passes(data, index, passes) ==
    DictSet(data, "features",
            [features_of(data) EXCEPT ![index] = DictSet(@, "passes", JBool(passes))])

\* a slip: the dry-run flag is not looked at
outcome_no_dry_run(data, feature_id, passes, dry_run) ==
    LET i == find_feature(data, feature_id) IN
    IF i = 0 THEN "not_found"
    ELSE IF already_set(features_of(data)[i], passes) THEN "unchanged"
    ELSE "change"

\* lines 81-111 of update_feature_status: what the lookup decides
outcome(data, feature_id, passes, dry_run) ==
    LET i == find_feature(data, feature_id) IN
    IF i = 0 THEN "not_found"
    ELSE IF already_set(features_of(data)[i], passes) THEN "unchanged"
    ELSE IF dry_run THEN "dry_run"
    ELSE "change"

(* --------------------------- show_status.py ---------------------------- *)
\* get_next_features' default limit
DefaultLimit == 5

\* priority_order
priority_order == [critical |-> 0, high |-> 1, medium |-> 2, low |-> 3]

\* a slip: the default of f.get is a name priority_order does not know
sort_key_missing_last(f) ==
    LET pri == Get(f, "priority", JStr("unknown")) IN
    IF pri.t = "str" /\ pri.v \in DOMAIN priority_order THEN priority_order[pri.v] ELSE 4

\* priority_order.get(f.get('priority', 'low'), 4)
sort_key(f) ==
    LET pri == Get(f, "priority", JStr("low")) IN
    IF pri.t = "str" /\ pri.v \in DOMAIN priority_order THEN priority_order[pri.v] ELSE 4

\* a slip: the filter on passes is left out
is_failing_always(f) == TRUE

\* not f.get('passes', False)
is_failing(f) == ~PyTruthy(Get(f, "passes", JBool(FALSE)))

\* [f for f in features if not f.get('passes', False)]
RECURSIVE failing_of(_)
failing_of(features) ==
    IF features = <<>> THEN <<>>
    ELSE (IF is_failing(Head(features)) THEN <<Head(features)>> ELSE <<>>)
         \o failing_of(Tail(features))

\* a slip: an unstable sort, equal keys come out in reverse order
RECURSIVE insert_before_equal(_, _)
insert_before_equal(sorted, f) ==
    IF sorted = <<>> THEN <<f>>
    ELSE IF sort_key(Head(sorted)) < sort_key(f)
         THEN <<Head(sorted)>> \o insert_before_equal(Tail(sorted), f)
         ELSE <<f>> \o sorted

\* one step of the stable sort: f goes behind every entry whose key is not larger
RECURSIVE insert_by_key(_, _)
insert_by_key(sorted, f) ==
    IF sorted = <<>> THEN <<f>>
    ELSE IF sort_key(Head(sorted)) <= sort_key(f)
         THEN <<Head(sorted)>> \o insert_by_key(Tail(sorted), f)
         ELSE <<f>> \o sorted

\* failing.sort(key=...): list.sort is stable
RECURSIVE sort_from(_, _)
sort_from(sorted, rest) ==
    IF rest = <<>> THEN sorted
    ELSE sort_from(insert_by_key(sorted, Head(rest)), Tail(rest))

\* get_next_features(data, limit)
get_next_features(d, limit) ==
    LET failing == sort_from(<<>>, failing_of(features_of(d)))
    IN  SubSeq(failing, 1, IF Len(failing) < limit THEN Len(failing) ELSE limit)

\* meta value with a computed default: meta.get(k, default)
meta_int(meta, k, default) == IF k \in DOMAIN meta THEN meta[k].v ELSE default

\* a / b of two ints: ZeroDivisionError on b = 0, else the quotient, kept as the
\* two roundings the tools print: int(scale * a / b) and a / b * 100 to one
\* decimal, in tenths (no quotient within the bounds falls on a rounding tie)
true_div(a, b, scale) ==
    IF b = 0 THEN [raised |-> TRUE]
    ELSE [raised |-> FALSE,
          scaled |-> (scale * a) \div b,
          tenths |-> (2000 * a + b) \div (2 * b)]

\* width, line 70
BarWidth == 40

\* print_progress_bar(passing, total), lines 70-80
print_progress_bar(passing, total, width) ==
    IF total = 0 THEN [raised |-> FALSE, printed |-> FALSE]
    ELSE LET pct == true_div(passing, total, width) IN
         IF pct.raised THEN [raised |-> TRUE]
         ELSE [raised |-> FALSE, printed |-> TRUE,
               filled |-> pct.scaled, empty |-> width - pct.scaled, tenths |-> pct.tenths]

\* print_status, lines 90-108: the numbers and the next features it prints
print_status(file) ==
    IF ~Parses(file) THEN [ran |-> TRUE, loaded |-> FALSE]
    ELSE LET d == json_load(file)
             meta == Get(d, "metadata", EmptyDict)
             total == meta_int(meta, "total_features", Len(features_of(d)))
             passing == meta_int(meta, "passing", count_passing(features_of(d)))
         IN  [ran |-> TRUE, loaded |-> TRUE,
              total |-> total, passing |-> passing, failing |-> total - passing,
              bar |-> print_progress_bar(passing, total, BarWidth),
              next |-> get_next_features(d, DefaultLimit)]

(* ------------------------ validate_features.py ------------------------- *)
\* required, line 22
required_fields == <<"id", "category", "description", "priority", "steps", "passes">>
\* required, line 66
required_metadata == <<"project_name", "total_features", "passing", "failing">>
\* valid_priorities, line 38
valid_priorities == {"critical", "high", "medium", "low"}

\* one entry of the errors list: what is wrong, of which feature, in which field
Err(kind, subject, field) == [kind |-> kind, subject |-> subject, field |-> field]

ErrIf(cond, err) == IF cond THEN <<err>> ELSE <<>>

\* the key a value has in a set or dict: True and 1, False and 0 are one key
PyKey(x) == IF x.t = "bool" THEN JInt(IF x.v THEN 1 ELSE 0) ELSE x

\* hash(x) raises TypeError
Unhashable(x) == x.t = "list"

\* len(x) raises TypeError
Unsized(x) == x.t \in {"int", "bool", "null"}

\* the fields of `fields` that d lacks, in order
missing_of(d, fields) == SelectSeq(fields, LAMBDA k : k \notin DOMAIN d)

\* feature.get('id', f'index-{index}'), index counting from 0
feature_label(feature, i) == Get(feature, "id", JStr("index-" \o ToString(i - 1)))

\* lines 42-50: the checks of steps
steps_errors(feature, label) ==
    IF "steps" \notin DOMAIN feature THEN <<>>
    ELSE IF feature["steps"].t # "list" THEN <<Err("not_array", label, "steps")>>
    ELSE IF feature["steps"].v = <<>> THEN <<Err("empty", label, "steps")>>
    ELSE LET steps == feature["steps"].v
             bad == SelectSeq([j \in 1..Len(steps) |-> j], LAMBDA j : steps[j].t # "str")
         IN  [n \in 1..Len(bad) |-> Err("step_not_string", label, "step " \o ToString(bad[n]))]

\* validate_feature(feature, index): raised, or the errors of the feature
validate_feature(feature, i) ==
    LET label == feature_label(feature, i)
        missing == missing_of(feature, required_fields)
        has(k) == k \in DOMAIN feature
    IN  IF has("description") /\ Unsized(feature["description"])
        THEN [raised |-> TRUE, errors |-> <<>>]
        ELSE [raised |-> FALSE,
              errors |->
                 [n \in 1..Len(missing) |-> Err("missing", label, missing[n])]
                 \o ErrIf(has("id") /\ feature["id"].t # "str", Err("not_string", label, "id"))
                 \o ErrIf(has("category") /\ feature["category"].t # "str",
                          Err("not_string", label, "category"))
                 \o ErrIf(has("description") /\ feature["description"].t # "str",
                          Err("not_string", label, "description"))
                 \o ErrIf(has("priority") /\ ~(/\ feature["priority"].t = "str"
                                               /\ feature["priority"].v \in valid_priorities),
                          Err("not_a_priority", label, "priority"))
                 \o steps_errors(feature, label)
                 \o ErrIf(has("passes") /\ feature["passes"].t # "bool",
                          Err("not_boolean", label, "passes"))
                 \o ErrIf(has("description") /\ Len(feature["description"].v) < 10,
                          Err("too_short", label, "description"))]

\* the number a metadata count stands for in arithmetic and comparison
Numeric(x) == x.t \in {"int", "bool"}
NumberOf(x) == IF x.t = "bool" THEN (IF x.v THEN 1 ELSE 0) ELSE x.v

\* a + b raises TypeError: neither two numbers nor two strings nor two lists
Unaddable(a, b) == ~(Numeric(a) /\ Numeric(b)) /\ ~(a.t = b.t /\ a.t \in {"str", "list"})

\* a + b != total, for a and b that can be added
sum_differs(a, b, total) ==
    IF Numeric(a) THEN ~(Numeric(total) /\ NumberOf(a) + NumberOf(b) = NumberOf(total))
    ELSE ~(total.t = a.t /\ a.v \o b.v = total.v)

\* validate_metadata(metadata): raised (counts that cannot be added), or the errors
validate_metadata(metadata) ==
    LET missing == missing_of(metadata, required_metadata)
        counted == {"total_features", "passing", "failing"} \subseteq DOMAIN metadata
    IN  IF counted /\ Unaddable(metadata["passing"], metadata["failing"])
        THEN [raised |-> TRUE, errors |-> <<>>]
        ELSE [raised |-> FALSE,
              errors |->
                 [n \in 1..Len(missing) |-> Err("missing", JStr("metadata"), missing[n])]
                 \o ErrIf(counted /\ sum_differs(metadata["passing"], metadata["failing"],
                                                 metadata["total_features"]),
                          Err("sum_mismatch", JStr("metadata"), "total_features"))]

\* stats as validate_feature_list starts them, lines 90-96
NoStats == [total |-> 0, passing |-> 0, failing |-> 0,
            by_category |-> EmptyDict, by_priority |-> EmptyDict]

\* d[k] = d.get(k, 0) + 1
Bump(d, k) == DictSet(d, k, Get(d, k, 0) + 1)

\* lines 122-125: the duplicate check of the i-th feature
duplicate_errors(features, i, seen_ids) ==
    LET feature == features[i] IN
    ErrIf(/\ "id" \in DOMAIN feature
          /\ PyTruthy(feature["id"])
          /\ PyKey(feature["id"]) \in seen_ids,
          Err("duplicate_id", feature["id"], "id"))

\* lines 118-143: the loop over the features, from the i-th on
RECURSIVE validate_each(_, _, _, _, _)
validate_each(features, i, seen_ids, errors, stats) ==
    IF i > Len(features) THEN [raised |-> FALSE, errors |-> errors, stats |-> stats]
    ELSE
    LET feature == features[i]
        has_fid == "id" \in DOMAIN feature /\ PyTruthy(feature["id"])
        checked == validate_feature(feature, i)
        cat == Get(feature, "category", JStr("uncategorized"))
        pri == Get(feature, "priority", JStr("unknown"))
        passing == passes_truthy(feature)
    IN  IF \/ has_fid /\ Unhashable(feature["id"])
           \/ checked.raised
           \/ Unhashable(cat)
           \/ Unhashable(pri)
        THEN [raised |-> TRUE, errors |-> errors, stats |-> stats]
        ELSE validate_each(
                features, i + 1,
                IF has_fid THEN seen_ids \cup {PyKey(feature["id"])} ELSE seen_ids,
                errors \o duplicate_errors(features, i, seen_ids) \o checked.errors,
                [total |-> stats.total + 1,
                 passing |-> stats.passing + (IF passing THEN 1 ELSE 0),
                 failing |-> stats.failing + (IF passing THEN 0 ELSE 1),
                 by_category |-> Bump(stats.by_category, PyKey(cat)),
                 by_priority |-> Bump(stats.by_priority, PyKey(pri))])

\* meta.get(k) != n
count_differs(meta, k, n) == ~(k \in DOMAIN meta /\ Numeric(meta[k]) /\ NumberOf(meta[k]) = n)

\* a slip: only the total is compared with the actual count
metadata_errors_total_only(meta, stats) ==
    validate_metadata(meta).errors
    \o ErrIf(count_differs(meta, "total_features", stats.total),
             Err("count_mismatch", JStr("metadata"), "total_features"))

\* lines 145-157: the metadata checks
metadata_errors(meta, stats) ==
    validate_metadata(meta).errors
    \o ErrIf(count_differs(meta, "total_features", stats.total),
             Err("count_mismatch", JStr("metadata"), "total_features"))
    \o ErrIf(count_differs(meta, "passing", stats.passing),
             Err("count_mismatch", JStr("metadata"), "passing"))
    \o ErrIf(count_differs(meta, "failing", stats.failing),
             Err("count_mismatch", JStr("metadata"), "failing"))

Returned(is_valid, errors, stats) ==
    [outcome |-> "returned", is_valid |-> is_valid, errors |-> errors, stats |-> stats]
Raised == [outcome |-> "raised"]

\* the key under which a document holds a features member that is not a list
\* (the lists of a document are bare sequences, any other member is tagged)
NotAList == "features (not a list)"

\* validate_feature_list(filepath)
validate_feature_list(file) ==
    IF file.kind = "absent" THEN Returned(FALSE, <<Err("file_not_found", JNull, "")>>, NoStats)
    ELSE IF ~Parses(file) THEN Returned(FALSE, <<Err("invalid_json", JNull, "")>>, NoStats)
    ELSE LET d == json_load(file) IN
    IF NotAList \in DOMAIN d
    THEN Returned(FALSE, <<Err("not_array", JNull, "features")>>, NoStats)
    ELSE IF "features" \notin DOMAIN d
    THEN Returned(FALSE, <<Err("missing", JNull, "features")>>, NoStats)
    ELSE LET each == validate_each(d["features"], 1, {}, <<>>, NoStats) IN
    IF each.raised THEN Raised
    ELSE IF "metadata" \notin DOMAIN d
    THEN Returned(each.errors = <<>>, each.errors, each.stats)
    ELSE IF validate_metadata(d["metadata"]).raised THEN Raised
    ELSE LET errors == each.errors \o metadata_errors(d["metadata"], each.stats)
         IN  Returned(errors = <<>>, errors, each.stats)

\* max(a, b)
Max(a, b) == IF a >= b THEN a ELSE b

\* a slip: the total itself is the divisor
print_report_unguarded(stats) ==
    LET passing == true_div(stats.passing, stats.total, 1)
        failing == true_div(stats.failing, stats.total, 1)
    IN  IF passing.raised \/ failing.raised THEN [raised |-> TRUE]
        ELSE [raised |-> FALSE, total |-> stats.total,
              passing |-> stats.passing, passing_tenths |-> passing.tenths,
              failing |-> stats.failing, failing_tenths |-> failing.tenths]

\* print_report, lines 178-182: the statistics lines
print_report(stats) ==
    LET passing == true_div(stats.passing, Max(stats.total, 1), 1)
        failing == true_div(stats.failing, Max(stats.total, 1), 1)
    IN  IF passing.raised \/ failing.raised THEN [raised |-> TRUE]
        ELSE [raised |-> FALSE, total |-> stats.total,
              passing |-> stats.passing, passing_tenths |-> passing.tenths,
              failing |-> stats.failing, failing_tenths |-> failing.tenths]

\* main, lines 206-207: validate, then print the report
validate_main(file) ==
    LET r == validate_feature_list(file) IN
    IF r.outcome = "raised" THEN Raised
    ELSE [outcome |-> "returned", is_valid |-> r.is_valid, errors |-> r.errors,
          stats |-> r.stats, printed |-> print_report(r.stats)]

(* ------------------------------ state ---------------------------------- *)
VARIABLES
    primary,    \* feature_list.json
    backup,     \* feature_list.json.bak
    pc,         \* per invocation: where update_feature_status stands
    args,       \* per invocation: feature_id, passes, dry_run
    data,       \* per invocation: the loaded (then modified) document
    index,      \* per invocation: find_feature's index
    result,     \* per invocation: how it ended
    pre,        \* history: the primary file when the invocation loaded it
    preBak,     \* history: the backup file when the invocation loaded it
    lastDump,   \* history: the invocation whose json.dump ran last, 0 for none
    shown,      \* what show_status.py last printed
    report      \* what validate_features.py last returned

vars == <<primary, backup, pc, args, data, index, result, pre, preBak, lastDump, shown, report>>

NoArgs == [feature_id |-> "", passes |-> FALSE, dry_run |-> FALSE]
NoData == EmptyDict
NoShown == [ran |-> FALSE]
NoReport == [outcome |-> "none"]

(* --------------------------- initial ledgers --------------------------- *)
MutatePriorities == {"high"}

BaseFeatures == {[id |-> JStr(i), priority |-> JStr(p)] : i \in Ids, p \in MutatePriorities}

\* features with passes true, false or missing
FeatureSet ==
    BaseFeatures \cup {DictSet(b, "passes", JBool(v)) : b \in BaseFeatures, v \in BOOLEAN}

\* metadata whose counts are right, carrying a project name
FreshMeta(features) ==
    [project_name |-> JStr("pace"),
     total_features |-> JInt(Len(features)),
     passing |-> JInt(count_passing(features)),
     failing |-> JInt(count_failing(features)),
     last_updated |-> JStr(isoformat(0))]

\* metadata left stale by an edit made by hand, without a project name
StaleMeta(features) ==
    [total_features |-> JInt(Len(features) + 1), passing |-> JInt(0), failing |-> JInt(0)]

InitDocs ==
    UNION {{[features |-> fs],
            [features |-> fs, metadata |-> EmptyDict],
            [features |-> fs, metadata |-> StaleMeta(fs)],
            [features |-> fs, metadata |-> FreshMeta(fs)]}
           : fs \in SeqsUpTo(FeatureSet, MaxFeatures)}

InitFiles == {AbsentFile} \cup {TextFile(fmt, d) : fmt \in {"compact", "indent2"}, d \in InitDocs}

Init ==
    /\ primary \in InitFiles
    /\ backup = AbsentFile
    /\ pc = [p \in Procs |-> "idle"]
    /\ args = [p \in Procs |-> NoArgs]
    /\ data = [p \in Procs |-> NoData]
    /\ index = [p \in Procs |-> 0]
    /\ result = [p \in Procs |-> "none"]
    /\ pre = [p \in Procs |-> AbsentFile]
    /\ preBak = [p \in Procs |-> AbsentFile]
    /\ lastDump = 0
    /\ shown = NoShown
    /\ report = NoReport

(* ---------------------- update_feature_status -------------------------- *)
Finish(p, r) ==
    /\ pc' = [pc EXCEPT ![p] = "done"]
    /\ result' = [result EXCEPT ![p] = r]

\* lines 71-79: a fresh invocation loads the ledger
Load(p) ==
    /\ pc[p] = "idle"
    /\ \E fid \in Ids \cup {UnknownId}, v \in BOOLEAN, dry \in BOOLEAN :
          args' = [args EXCEPT ![p] = [feature_id |-> fid, passes |-> v, dry_run |-> dry]]
    /\ pre' = [pre EXCEPT ![p] = primary]
    /\ preBak' = [preBak EXCEPT ![p] = backup]
    /\ IF Parses(primary)
       THEN /\ data' = [data EXCEPT ![p] = json_load(primary)]
            /\ pc' = [pc EXCEPT ![p] = "lookup"]
            /\ UNCHANGED result
       ELSE /\ Finish(p, "load_error")
            /\ UNCHANGED data
    /\ UNCHANGED <<shown, report, lastDump, primary, backup, index>>

\* lines 81-111: find the feature, stop on unknown id, no change, dry run
Lookup(p) ==
    /\ pc[p] = "lookup"
    /\ index' = [index EXCEPT ![p] = find_feature(data[p], args[p].feature_id)]
    /\ LET o == outcome(data[p], args[p].feature_id, args[p].passes, args[p].dry_run) IN
       IF o = "change"
       THEN pc' = [pc EXCEPT ![p] = "change"] /\ UNCHANGED result
       ELSE Finish(p, o)
    /\ UNCHANGED <<shown, report, lastDump, primary, backup, args, data, pre, preBak>>

\* lines 113-117: set passes on the record found, recompute the metadata
Change(p) ==
    /\ pc[p] = "change"
    /\ \E now \in Times :
          data' = [data EXCEPT ![p] =
                      update_metadata(set_passes(data[p], index[p], args[p].passes), now)]
    /\ pc' = [pc EXCEPT ![p] = "backup"]
    /\ UNCHANGED <<shown, report, lastDump, primary, backup, args, index, result, pre, preBak>>

\* a slip: an existing backup is kept instead of overwritten
BackupOnce(p) ==
    /\ pc[p] = "backup"
    /\ primary.kind # "absent"
    /\ backup' = IF backup.kind = "absent" THEN primary ELSE backup
    /\ pc' = [pc EXCEPT ![p] = "open"]
    /\ UNCHANGED <<shown, report, lastDump, primary, args, data, index, result, pre, preBak>>

\* a slip: the save is called with backup=False
BackupSkipped(p) ==
    /\ pc[p] = "backup"
    /\ primary.kind # "absent"
    /\ pc' = [pc EXCEPT ![p] = "open"]
    /\ UNCHANGED <<shown, report, lastDump, primary, backup, args, data, index, result, pre, preBak>>

\* lines 34-36: shutil.copy(filepath, backup_path)
Backup(p) ==
    /\ pc[p] = "backup"
    /\ primary.kind # "absent"
    /\ backup' = primary
    /\ pc' = [pc EXCEPT ![p] = "open"]
    /\ UNCHANGED <<shown, report, lastDump, primary, args, data, index, result, pre, preBak>>

\* a slip: the copy's exception is swallowed and the save goes on
BackupFailIgnored(p) ==
    /\ pc[p] = "backup"
    /\ backup' \in {backup, PartialFile}
    /\ pc' = [pc EXCEPT ![p] = "open"]
    /\ UNCHANGED <<shown, report, lastDump, primary, args, data, index, result, pre, preBak>>

\* lines 34-36: the copy raises; the backup is untouched or cut off
BackupFail(p) ==
    /\ pc[p] = "backup"
    /\ backup' \in {backup, PartialFile}
    /\ Finish(p, "backup_failed")
    /\ UNCHANGED <<shown, report, lastDump, primary, args, data, index, pre, preBak>>

\* line 38: open(filepath, 'w') truncates the ledger
OpenWrite(p) ==
    /\ pc[p] = "open"
    /\ primary' = EmptyFile
    /\ pc' = [pc EXCEPT ![p] = "dump"]
    /\ UNCHANGED <<shown, report, lastDump, backup, args, data, index, result, pre, preBak>>

\* line 38: open raises (permissions); nothing is touched
OpenFail(p) ==
    /\ pc[p] = "open"
    /\ Finish(p, "open_failed")
    /\ UNCHANGED <<shown, report, lastDump, primary, backup, args, data, index, pre, preBak>>

\* line 39: json.dump writes the document and the file is closed
Dump(p) ==
    /\ pc[p] = "dump"
    /\ primary' = written_over(primary, data[p])
    /\ lastDump' = p
    /\ Finish(p, "changed")
    /\ UNCHANGED <<shown, report, backup, args, data, index, pre, preBak>>

\* line 39: the write raises part way (disk full)
DumpFail(p) ==
    /\ pc[p] = "dump"
    /\ primary' = PartialFile
    /\ Finish(p, "dump_failed")
    /\ UNCHANGED <<shown, report, lastDump, backup, args, data, index, pre, preBak>>

\* the process is killed between two steps
Kill(p) ==
    /\ pc[p] \in {"lookup", "change", "backup", "open", "dump"}
    /\ Finish(p, "killed")
    /\ UNCHANGED <<shown, report, lastDump, primary, backup, args, data, index, pre, preBak>>

\* the process has exited; the next invocation starts from nothing
Exit(p) ==
    /\ pc[p] = "done"
    /\ pc' = [pc EXCEPT ![p] = "idle"]
    /\ args' = [args EXCEPT ![p] = NoArgs]
    /\ data' = [data EXCEPT ![p] = NoData]
    /\ index' = [index EXCEPT ![p] = 0]
    /\ result' = [result EXCEPT ![p] = "none"]
    /\ pre' = [pre EXCEPT ![p] = AbsentFile]
    /\ preBak' = [preBak EXCEPT ![p] = AbsentFile]
    /\ UNCHANGED <<shown, report, lastDump, primary, backup>>

\* invocations one at a time (the single driving process of the design)
Step(p) ==
        \/ Load(p)
        \/ Lookup(p)
        \/ Change(p)
        \/ Backup(p)
        \/ BackupFail(p)
        \/ OpenWrite(p)
        \/ OpenFail(p)
        \/ Dump(p)
        \/ DumpFail(p)
        \/ Kill(p)
        \/ Exit(p)

Next == Step(Driver)

Spec == Init /\ [][Next]_vars

(* ------------------ interleaved update_feature runs -------------------- *)
\* no invocation has started
NoInvocation ==
    /\ pc = [p \in Procs |-> "idle"]
    /\ args = [p \in Procs |-> NoArgs]
    /\ data = [p \in Procs |-> NoData]
    /\ index = [p \in Procs |-> 0]
    /\ result = [p \in Procs |-> "none"]
    /\ pre = [p \in Procs |-> AbsentFile]
    /\ preBak = [p \in Procs |-> AbsentFile]
    /\ lastDump = 0

\* a ledger as update_feature.py leaves it: the metadata counts match the features
InitRace ==
    /\ \E fs \in SeqsUpTo(FeatureSet, MaxFeatures) :
          primary = json_dump([features |-> fs, metadata |-> FreshMeta(fs)])
    /\ backup = AbsentFile
    /\ NoInvocation
    /\ shown = NoShown
    /\ report = NoReport

\* the steps of an invocation that meets no I/O error
StepRace(p) ==
        \/ Load(p)
        \/ Lookup(p)
        \/ Change(p)
        \/ Backup(p)
        \/ OpenWrite(p)
        \/ Dump(p)

\* one invocation per process, their steps in any order
NextRace == \E p \in Procs : StepRace(p)

SpecRace == InitRace /\ [][NextRace]_vars

(* ------------------------- show_status alone --------------------------- *)
Missing == "<missing>"
SelectPriorities == {"critical", "high", "medium", "low", "urgent", Missing}
SelectPasses == {"true", "false", Missing}

\* the i-th feature of a ledger to show: its id is its position
make_feature(i, pri, pas) ==
    LET f0 == [id |-> JStr("F00" \o ToString(i))]
        f1 == IF pri = Missing THEN f0 ELSE DictSet(f0, "priority", JStr(pri))
    IN  IF pas = Missing THEN f1 ELSE DictSet(f1, "passes", JBool(pas = "true"))

InitSelect ==
    /\ \/ primary = AbsentFile
       \/ \E k \in 0..MaxShown :
             \E pris \in [1..k -> SelectPriorities], pass \in [1..k -> SelectPasses] :
                primary = TextFile("indent2",
                             [features |-> [i \in 1..k |-> make_feature(i, pris[i], pass[i])]])
    /\ backup = AbsentFile
    /\ pc = [p \in Procs |-> "idle"]
    /\ args = [p \in Procs |-> NoArgs]
    /\ data = [p \in Procs |-> NoData]
    /\ index = [p \in Procs |-> 0]
    /\ result = [p \in Procs |-> "none"]
    /\ pre = [p \in Procs |-> AbsentFile]
    /\ preBak = [p \in Procs |-> AbsentFile]
    /\ lastDump = 0
    /\ shown = NoShown
    /\ report = NoReport

\* show_status.py runs once on the ledger
ShowStatus ==
    /\ ~shown.ran
    /\ shown' = print_status(primary)
    /\ UNCHANGED <<primary, backup, pc, args, data, index, result, pre, preBak, lastDump, report>>

NextSelect == ShowStatus

SpecSelect == InitSelect /\ [][NextSelect]_vars

(* ---------------------- validate_features alone ------------------------ *)
ValidatedIds == {"F001", "F002", "", Missing}

\* a feature that passes every check but for its id, which may repeat, be empty or lack
validated_feature(id, pas) ==
    LET f == [category |-> JStr("core"),
              description |-> JStr("Login works"),
              priority |-> JStr("high"),
              steps |-> JList(<<JStr("open the page")>>),
              passes |-> JBool(pas)]
    IN  IF id = Missing THEN f ELSE DictSet(f, "id", JStr(id))

InitValidate ==
    /\ \/ primary = AbsentFile
       \/ \E k \in 0..MaxValidated :
             \E ids \in [1..k -> ValidatedIds], pass \in [1..k -> BOOLEAN], meta \in BOOLEAN :
                LET fs == [i \in 1..k |-> validated_feature(ids[i], pass[i])] IN
                primary = TextFile("indent2",
                             IF meta THEN [features |-> fs, metadata |-> FreshMeta(fs)]
                             ELSE [features |-> fs])
    /\ backup = AbsentFile
    /\ pc = [p \in Procs |-> "idle"]
    /\ args = [p \in Procs |-> NoArgs]
    /\ data = [p \in Procs |-> NoData]
    /\ index = [p \in Procs |-> 0]
    /\ result = [p \in Procs |-> "none"]
    /\ pre = [p \in Procs |-> AbsentFile]
    /\ preBak = [p \in Procs |-> AbsentFile]
    /\ lastDump = 0
    /\ shown = NoShown
    /\ report = NoReport

\* validate_features.py runs once on the ledger
Validate ==
    /\ report.outcome = "none"
    /\ report' = validate_main(primary)
    /\ UNCHANGED <<primary, backup, pc, args, data, index, result, pre, preBak, lastDump, shown>>

NextValidate == Validate

SpecValidate == InitValidate /\ [][NextValidate]_vars

(* ----------------- validate_features on mistyped fields ---------------- *)
TypedDescriptions == {JStr("Login works"), JStr("Login"), JInt(5)}
TypedPasses == {JBool(TRUE), JStr("yes")}
TypedPriorities == {JStr("high"), JStr("urgent")}

\* the i-th feature of a ledger written by hand
typed_feature(i, description, passes, priority) ==
    [id |-> JStr("F00" \o ToString(i)),
     category |-> JStr("core"),
     description |-> description,
     priority |-> priority,
     steps |-> JList(<<JStr("open the page")>>),
     passes |-> passes]

InitTypes ==
    /\ \/ primary = TextFile("indent2", EmptyDict)
       \/ \E x \in {JNull, JStr("none")} :
             primary = TextFile("indent2", [k \in {NotAList} |-> x])
       \/ \E k \in 0..MaxValidated :
             \E ds \in [1..k -> TypedDescriptions], ps \in [1..k -> TypedPasses],
                pris \in [1..k -> TypedPriorities] :
                primary = TextFile("indent2",
                             [features |->
                                 [i \in 1..k |-> typed_feature(i, ds[i], ps[i], pris[i])]])
    /\ backup = AbsentFile
    /\ NoInvocation
    /\ shown = NoShown
    /\ report = NoReport

SpecTypes == InitTypes /\ [][NextValidate]_vars

(* -------------------- statistics of both tools ------------------------- *)
MetaKinds == {"none", "fresh", "stale", "zero",
              "total_off", "passing_off", "failing_off", "swapped"}

\* metadata claiming no feature at all, whatever the features are
ZeroMeta == [project_name |-> JStr("pace"), total_features |-> JInt(0),
             passing |-> JInt(1), failing |-> JInt(0)]

\* metadata edited by hand: counts off by the given amounts
OffMeta(fs, total, passing, failing) ==
    [FreshMeta(fs) EXCEPT !["total_features"] = JInt(@.v + total),
                          !["passing"] = JInt(@.v + passing),
                          !["failing"] = JInt(@.v + failing)]

\* metadata whose passing and failing counts stand in each other's place
SwappedMeta(fs) ==
    [FreshMeta(fs) EXCEPT !["passing"] = FreshMeta(fs)["failing"],
                          !["failing"] = FreshMeta(fs)["passing"]]

with_metadata(fs, kind) ==
    CASE kind = "none" -> [features |-> fs]
      [] kind = "fresh" -> [features |-> fs, metadata |-> FreshMeta(fs)]
      [] kind = "stale" -> [features |-> fs, metadata |-> StaleMeta(fs)]
      [] kind = "zero" -> [features |-> fs, metadata |-> ZeroMeta]
      [] kind = "total_off" -> [features |-> fs, metadata |-> OffMeta(fs, 1, 0, 0)]
      [] kind = "passing_off" -> [features |-> fs, metadata |-> OffMeta(fs, 0, 1, 0)]
      [] kind = "failing_off" -> [features |-> fs, metadata |-> OffMeta(fs, 0, 0, 1)]
      [] OTHER -> [features |-> fs, metadata |-> SwappedMeta(fs)]

InitStats ==
    /\ \E k \in 0..MaxValidated :
          \E ids \in [1..k -> Ids], pass \in [1..k -> BOOLEAN], kind \in MetaKinds :
             primary = TextFile("indent2",
                          with_metadata([i \in 1..k |-> validated_feature(ids[i], pass[i])],
                                        kind))
    /\ backup = AbsentFile
    /\ NoInvocation
    /\ shown = NoShown
    /\ report = NoReport

\* each tool runs once on the ledger, in either order
NextStats == ShowStatus \/ Validate

SpecStats == InitStats /\ [][NextStats]_vars

(* --------------- update_feature on validated ledgers ------------------- *)
\* ledgers whose features pass every check of validate_feature, with the
\* metadata update_feature.py writes or with none
InitValid ==
    /\ \E k \in 0..MaxFeatures :
          \E ids \in [1..k -> Ids], pass \in [1..k -> BOOLEAN], kind \in {"none", "fresh"} :
             primary = TextFile("indent2",
                          with_metadata([i \in 1..k |-> validated_feature(ids[i], pass[i])],
                                        kind))
    /\ backup = AbsentFile
    /\ NoInvocation
    /\ shown = NoShown
    /\ report = NoReport

SpecValid == InitValid /\ [][Next]_vars

(* --------------------------- the work loop ----------------------------- *)
LoopPriorities == {"high", "low"}

\* ledgers of features that all carry an id; two features may share one
InitLoop ==
    /\ \E k \in 0..MaxFeatures :
          \E ids \in [1..k -> Ids], pris \in [1..k -> LoopPriorities], pass \in [1..k -> BOOLEAN] :
             LET fs == [i \in 1..k |->
                          [id |-> JStr(ids[i]), priority |-> JStr(pris[i]),
                           passes |-> JBool(pass[i])]]
             IN  primary = json_dump([features |-> fs, metadata |-> FreshMeta(fs)])
    /\ backup = AbsentFile
    /\ NoInvocation
    /\ shown = NoShown
    /\ report = NoReport

\* the feature show_status.py lists first, as a sequence of at most one
to_do(file) == get_next_features(json_load(file), 1)

\* the driver starts update_feature.py <id> pass with the id show_status.py
\* lists first; it starts nothing once no feature is listed
LoadNext(p) ==
    /\ Parses(primary)
    /\ to_do(primary) # <<>>
    /\ Load(p)
    /\ args'[p] = [feature_id |-> to_do(primary)[1]["id"].v, passes |-> TRUE,
                   dry_run |-> FALSE]

\* one invocation at a time, none of which meets an I/O error
NextLoop ==
        \/ LoadNext(Driver)
        \/ Lookup(Driver)
        \/ Change(Driver)
        \/ Backup(Driver)
        \/ OpenWrite(Driver)
        \/ Dump(Driver)
        \/ Exit(Driver)

\* the driver keeps going as long as it has a step to take
SpecLoop == InitLoop /\ [][NextLoop]_vars /\ WF_vars(NextLoop)

(* ------------------------------ claims --------------------------------- *)
\* the claims' own reading of a ledger, independent of the tools' helpers
CarriesId(f, id) == "id" \in DOMAIN f /\ f["id"] = JStr(id)
IdKnown(doc, id) == \E i \in DOMAIN doc["features"] : CarriesId(doc["features"][i], id)
\* the record a call names: the first one in the sequence carrying the id
Named(doc, id) ==
    CHOOSE i \in DOMAIN doc["features"] :
        /\ CarriesId(doc["features"][i], id)
        /\ \A j \in 1..(i - 1) : ~CarriesId(doc["features"][j], id)
PassesIs(f, b) == "passes" \in DOMAIN f /\ f["passes"] = JBool(b)
\* the status of a feature is b, a missing passes reading as false
StatusIs(f, b) == IF "passes" \in DOMAIN f THEN f["passes"] = JBool(b) ELSE ~b
PriorityIs(f, pri) == "priority" \in DOMAIN f /\ f["priority"] = JStr(pri)
InFlight(p) == pc[p] # "idle"
Ended(p, outcomes) == pc[p] = "done" => result[p] \in outcomes \cup {"killed"}

\* the call of p asks for the status its feature already has
C1_Applies(p) ==
    /\ InFlight(p)
    /\ Parses(pre[p])
    /\ IdKnown(pre[p].doc, args[p].feature_id)
    /\ StatusIs(pre[p].doc["features"][Named(pre[p].doc, args[p].feature_id)], args[p].passes)

\* C1: a Mutate whose status equals the current passes of the feature it names
\* succeeds and leaves the primary file (so also metadata.last_updated) and the
\* backup file exactly as they were, however often it is repeated.
C1_Idempotent ==
    \A p \in Procs :
        C1_Applies(p) =>
            /\ primary = pre[p]
            /\ backup = preBak[p]
            /\ Ended(p, {"unchanged"})

\* a repeated call: an earlier changing call left its backup, this one changed nothing
C1_Witness ==
    /\ C1_Applies(Driver)
    /\ result[Driver] = "unchanged"
    /\ ~args[Driver].dry_run
    /\ backup.kind = "json"
    /\ "metadata" \in DOMAIN primary.doc
    /\ "last_updated" \in DOMAIN primary.doc["metadata"]

\* the counts of the document's metadata are those of its features
C2_Holds(doc) ==
    /\ "metadata" \in DOMAIN doc
    /\ {"total_features", "passing", "failing"} \subseteq DOMAIN doc["metadata"]
    /\ LET m == doc["metadata"] IN
       /\ m["passing"].v + m["failing"].v = m["total_features"].v
       /\ m["total_features"].v = Len(doc["features"])
       /\ m["passing"].v =
             Cardinality({i \in DOMAIN doc["features"] : PassesIs(doc["features"][i], TRUE)})

\* C2: after a successful changing Mutate the persisted metadata satisfies
\* passing + failing = total_features = len(features), and passing is the number
\* of features whose passes is true, whatever the metadata was before.
C2_MetadataInvariant ==
    \A p \in Procs : result[p] = "changed" => Parses(primary) /\ C2_Holds(primary.doc)

\* the ledger had stale metadata and a feature with no passes member
C2_Witness ==
    /\ result[Driver] = "changed"
    /\ "metadata" \in DOMAIN pre[Driver].doc
    /\ ~C2_Holds(pre[Driver].doc)
    /\ \E i \in DOMAIN primary.doc["features"] : "passes" \notin DOMAIN primary.doc["features"][i]

\* the ledger had no metadata at all
C2_WitnessAbsent ==
    /\ result[Driver] = "changed"
    /\ "metadata" \notin DOMAIN pre[Driver].doc

\* C3: right after a successful changing Mutate the backup file is the primary
\* file as it was when that Mutate began; an older backup is replaced.
C3_BackupIsSnapshot ==
    \A p \in Procs : result[p] = "changed" => backup = pre[p]

\* a second changing Mutate replaced the backup the first one had written
C3_Witness ==
    /\ result[Driver] = "changed"
    /\ preBak[Driver].kind = "json"
    /\ preBak[Driver] # pre[Driver]
    /\ backup = pre[Driver]

\* the call of p names an id no feature of the loaded ledger carries
C4_Applies(p) ==
    /\ InFlight(p)
    /\ Parses(pre[p])
    /\ ~IdKnown(pre[p].doc, args[p].feature_id)

\* C4: a Mutate naming an id no feature carries fails with not-found and leaves
\* the primary file and the backup file as they were.
C4_UnknownId ==
    \A p \in Procs :
        C4_Applies(p) =>
            /\ primary = pre[p]
            /\ backup = preBak[p]
            /\ Ended(p, {"not_found"})

C4_Witness ==
    /\ C4_Applies(Driver)
    /\ result[Driver] = "not_found"
    /\ ~args[Driver].dry_run
    /\ Len(pre[Driver].doc["features"]) > 0

\* C5: when the backup copy fails the primary file is still the pre-mutation
\* document, and whenever the primary file has been touched the backup already
\* holds that document: the backup step precedes the overwrite.
C5_BackupFirst ==
    \A p \in Procs :
        /\ result[p] = "backup_failed" => primary = pre[p]
        /\ (InFlight(p) /\ primary # pre[p]) => backup = pre[p]

\* a copy that failed part way, and the primary file still whole
C5_Witness ==
    /\ result[Driver] = "backup_failed"
    /\ backup = PartialFile
    /\ Parses(primary)

\* C6: during a changing Mutate the primary file is at every step the complete
\* pre-mutation document or the complete post-mutation document.
C6_AtomicPersist ==
    \A p \in Procs :
        (InFlight(p) /\ Parses(pre[p])) =>
            \/ primary = pre[p]
            \/ pc[p] = "done" /\ primary = json_dump(data[p])

\* the metadata members a Mutate may change
Recomputed == {"total_features", "passing", "failing", "last_updated"}

C8_FeaturesFrame(old, new, id, b) ==
    LET n == Named(old, id) IN
    /\ Len(new["features"]) = Len(old["features"])
    /\ \A i \in DOMAIN old["features"] :
          i # n => new["features"][i] = old["features"][i]
    /\ DOMAIN new["features"][n] = DOMAIN old["features"][n] \cup {"passes"}
    /\ \A k \in DOMAIN old["features"][n] \ {"passes"} :
          new["features"][n][k] = old["features"][n][k]
    /\ new["features"][n]["passes"] = JBool(b)
    /\ ~StatusIs(old["features"][n], b)

C8_MetadataFrame(old, new) ==
    LET om == Get(old, "metadata", EmptyDict)
        nm == new["metadata"]
    IN  /\ DOMAIN nm = DOMAIN om \cup Recomputed
        /\ \A k \in DOMAIN om \ Recomputed : nm[k] = om[k]

\* C8: a successful changing Mutate changes the passes member of the one record
\* it names and nothing else of the features; of the metadata only
\* total_features, passing, failing and last_updated may change, and
\* project_name is kept.
C8_MutateFrame ==
    \A p \in Procs :
        result[p] = "changed" =>
            /\ Parses(primary)
            /\ DOMAIN primary.doc = DOMAIN pre[p].doc \cup {"metadata"}
            /\ C8_FeaturesFrame(pre[p].doc, primary.doc, args[p].feature_id, args[p].passes)
            /\ C8_MetadataFrame(pre[p].doc, primary.doc)

\* two records share the id, the first one changed, the project name is kept
C8_Witness ==
    /\ result[Driver] = "changed"
    /\ Cardinality({i \in DOMAIN primary.doc["features"] :
                       CarriesId(primary.doc["features"][i], args[Driver].feature_id)}) = 2
    /\ "project_name" \in DOMAIN Get(pre[Driver].doc, "metadata", EmptyDict)
    /\ primary.doc["metadata"]["project_name"] = JStr("pace")

\* C10: a dry run loads and looks up as a real run does (an unknown id fails)
\* and leaves the primary file and the backup file as they were, also when the
\* requested status differs from the current one.
C10_DryRun ==
    \A p \in Procs :
        (InFlight(p) /\ args[p].dry_run) =>
            /\ primary = pre[p]
            /\ backup = preBak[p]
            /\ Parses(pre[p]) =>
                  IF IdKnown(pre[p].doc, args[p].feature_id)
                  THEN Ended(p, {"unchanged", "dry_run"})
                  ELSE Ended(p, {"not_found"})
            /\ ~Parses(pre[p]) => result[p] = "load_error"

\* a dry run asking for a status that differs from the current one
C10_Witness ==
    /\ result[Driver] = "dry_run"
    /\ args[Driver].dry_run
    /\ ~StatusIs(pre[Driver].doc["features"][Named(pre[Driver].doc, args[Driver].feature_id)],
                 args[Driver].passes)
    /\ backup.kind = "json"

\* the ranks the claim gives, and the features that carry one of them
C7_Rank == [critical |-> 0, high |-> 1, medium |-> 2, low |-> 3]
C7_Ranked(f) == "priority" \in DOMAIN f /\ f["priority"].v \in DOMAIN C7_Rank
C7_RankOf(f) == C7_Rank[f["priority"].v]
C7_Scenario ==
    <<[id |-> JStr("F001"), priority |-> JStr("high"), passes |-> JBool(FALSE)],
      [id |-> JStr("F002"), priority |-> JStr("critical"), passes |-> JBool(FALSE)]>>

\* C7: NextFeature returns a failing feature of minimal priority rank
\* (critical 0, high 1, medium 2, low 3) and, among the failing features of that
\* rank, the earliest of the ledger; with no failing feature it returns nothing;
\* [F001 high failing, F002 critical failing] yields F002.  The ranks are the
\* claim's: it ranks the four recognized priorities only, so the comparison is
\* among the failing features that carry one of them.
C7_NextFeatureOrdering ==
    (shown.ran /\ shown.loaded) =>
        LET fs == primary.doc["features"]
            Failing == {i \in DOMAIN fs : ~PassesIs(fs[i], TRUE)}
            Ranked == {i \in Failing : C7_Ranked(fs[i])}
        IN  /\ Failing = {} => shown.next = <<>>
            /\ Failing # {} =>
                  /\ shown.next # <<>>
                  /\ \E i \in Failing :
                        /\ shown.next[1] = fs[i]
                        /\ i \in Ranked =>
                              \A j \in Ranked :
                                  \/ C7_RankOf(fs[i]) < C7_RankOf(fs[j])
                                  \/ C7_RankOf(fs[i]) = C7_RankOf(fs[j]) /\ i <= j
                  /\ Ranked = Failing => C7_Ranked(shown.next[1])
            /\ fs = C7_Scenario => shown.next[1]["id"] = JStr("F002")

\* three failing features: a low one first, then two high ones; the first high one is next
C7_Witness ==
    /\ shown.ran /\ shown.loaded
    /\ Len(primary.doc["features"]) = 3
    /\ \A i \in 1..3 : PassesIs(primary.doc["features"][i], FALSE)
    /\ PriorityIs(primary.doc["features"][1], "low")
    /\ PriorityIs(primary.doc["features"][2], "high")
    /\ PriorityIs(primary.doc["features"][3], "high")
    /\ shown.next[1] = primary.doc["features"][2]

\* the scenario of the claim
C7_WitnessScenario ==
    /\ shown.ran /\ shown.loaded
    /\ primary.doc["features"] = C7_Scenario
    /\ shown.next[1]["id"] = JStr("F002")

\* how often an id occurs, and how many duplicate-id errors name it
C9_Occurrences(fs, x) == Cardinality({i \in DOMAIN fs : "id" \in DOMAIN fs[i] /\ fs[i]["id"] = x})
C9_Reports(errors, x) ==
    Cardinality({n \in DOMAIN errors : errors[n].kind = "duplicate_id" /\ errors[n].subject = x})

\* C9: every id that occurs two or more times in the feature list makes the
\* ledger invalid and is reported by exactly one duplicate-id error naming it,
\* however often it occurs; an id that occurs once is not reported.
C9_DuplicateOnce ==
    (report.outcome = "returned" /\ Parses(primary)) =>
        LET fs == primary.doc["features"] IN
        \A i \in DOMAIN fs :
            "id" \in DOMAIN fs[i] =>
                LET x == fs[i]["id"] IN
                /\ C9_Occurrences(fs, x) >= 2 =>
                      ~report.is_valid /\ C9_Reports(report.errors, x) = 1
                /\ C9_Occurrences(fs, x) = 1 => C9_Reports(report.errors, x) = 0

\* what the validator does instead: one error for each occurrence after the
\* first of a non-empty id, none for an empty id
C9_OnePerRepeat ==
    (report.outcome = "returned" /\ Parses(primary)) =>
        LET fs == primary.doc["features"] IN
        \A i \in DOMAIN fs :
            "id" \in DOMAIN fs[i] =>
                LET x == fs[i]["id"] IN
                C9_Reports(report.errors, x) =
                    IF x = JStr("") THEN 0 ELSE C9_Occurrences(fs, x) - 1

\* the spec's own case: two features share F001, one duplicate error names it
C9_TwoShareOne ==
    /\ report.outcome = "returned" /\ Parses(primary)
    /\ C9_Occurrences(primary.doc["features"], JStr("F001")) = 2
    /\ C9_Reports(report.errors, JStr("F001")) = 1
    /\ ~report.is_valid

(* ------------------------------- C11 ----------------------------------- *)
AllChanged == \A p \in Procs : pc[p] = "done" /\ result[p] = "changed"

\* C11: when every interleaved invocation has ended reporting success, the primary
\* file is exactly the document of the invocation whose json.dump ran last
C11_LastWriterWins == AllChanged => primary = json_dump(data[lastDump])

\* what does hold: a primary file that is a complete document after all have
\* ended is the last writer's document, and nothing of the other is merged
C11_CompleteIsLastWriters ==
    AllChanged /\ Parses(primary) => primary = json_dump(data[lastDump])

\* a lost update: both report success, the file is the last writer's document
\* and the record the other one changed still has its old status
C11_LostUpdate ==
    /\ AllChanged
    /\ primary = json_dump(data[lastDump])
    /\ \E q \in Procs \ {lastDump} :
          /\ index[q] # index[lastDump]
          /\ features_of(json_load(primary))[index[q]] = features_of(json_load(pre[q]))[index[q]]

(* ------------------------------- C12 ----------------------------------- *)
NoFeatures == Parses(primary) /\ json_load(primary)["features"] = <<>>
CountsFromFeatures ==
    \/ "metadata" \notin DOMAIN json_load(primary)
    \/ json_load(primary)["metadata"] = FreshMeta(<<>>)

\* C12: for a ledger with an empty feature list the statistics are total = 0,
\* passing = 0, failing = 0 and the percentages printed are 0; neither the report
\* nor the progress bar ever divides by zero
C12_DivisionSafe ==
    /\ report.outcome = "returned" =>
          /\ ~report.printed.raised
          /\ NoFeatures =>
                /\ report.stats.total = 0 /\ report.stats.passing = 0
                /\ report.stats.failing = 0
                /\ report.printed.passing_tenths = 0 /\ report.printed.failing_tenths = 0
    /\ shown.ran /\ shown.loaded =>
          /\ ~shown.bar.raised
          /\ NoFeatures /\ CountsFromFeatures =>
                /\ shown.total = 0 /\ shown.passing = 0 /\ shown.failing = 0
                /\ ~shown.bar.printed

C12_Witness ==
    /\ NoFeatures /\ CountsFromFeatures
    /\ report.outcome = "returned" /\ report.printed.passing_tenths = 0
    /\ shown.ran /\ shown.loaded /\ ~shown.bar.printed

\* a ledger with features does get its bar and its percentages
C12_WitnessBar ==
    /\ shown.ran /\ shown.loaded /\ shown.bar.printed /\ shown.bar.filled = 20
    /\ report.outcome = "returned" /\ report.printed.passing_tenths = 500

(* ------------------------------- C13 ----------------------------------- *)
C13_Failing(fs) == {i \in DOMAIN fs : ~PassesIs(fs[i], TRUE)}
\* the position of the feature show_status puts first
C13_First(fs) == CHOOSE i \in DOMAIN fs : fs[i] = shown.next[1]
\* rank 4 for a priority that is there but is none of the four; a feature
\* without a priority ranks as low
C13_RankPresent(f) ==
    IF "priority" \notin DOMAIN f THEN 3
    ELSE IF C7_Ranked(f) THEN C7_RankOf(f) ELSE 4

\* C13: a failing feature whose priority is missing or unrecognized ranks after
\* low, so NextFeature never returns one while a failing feature with a
\* recognized priority (low included) exists, wherever they stand in the ledger
C13_UnrecognizedLast ==
    (shown.ran /\ shown.loaded) =>
        LET fs == primary.doc["features"] IN
        (\E j \in C13_Failing(fs) : C7_Ranked(fs[j])) => C7_Ranked(shown.next[1])

\* C13 amended: a failing feature whose priority is there but unrecognized has
\* rank 4 and is never returned while a failing feature with a recognized or a
\* missing priority exists; a failing feature without a priority ranks as low
\* (3): it is never returned while a failing critical, high or medium feature
\* exists, and it is returned before a low feature that stands later
C13_UnrecognizedLastPresent ==
    (shown.ran /\ shown.loaded) =>
        LET fs == primary.doc["features"] IN
        C13_Failing(fs) # {} =>
            /\ shown.next # <<>>
            /\ \E i \in C13_Failing(fs) : fs[i] = shown.next[1]
            /\ \A j \in C13_Failing(fs) :
                  \/ C13_RankPresent(fs[C13_First(fs)]) < C13_RankPresent(fs[j])
                  \/ /\ C13_RankPresent(fs[C13_First(fs)]) = C13_RankPresent(fs[j])
                     /\ C13_First(fs) <= j

\* a failing feature without a priority stands before a failing low one and is
\* returned; an unrecognized one standing first is not
C13_Witness ==
    /\ shown.ran /\ shown.loaded
    /\ Len(primary.doc["features"]) = 3
    /\ \A i \in 1..3 : PassesIs(primary.doc["features"][i], FALSE)
    /\ PriorityIs(primary.doc["features"][1], "urgent")
    /\ "priority" \notin DOMAIN primary.doc["features"][2]
    /\ PriorityIs(primary.doc["features"][3], "low")
    /\ shown.next[1] = primary.doc["features"][2]

(* ------------------------------- C14 ----------------------------------- *)
\* the document p has computed has been written whole
C14_PostWritten(p) ==
    pc[p] = "done" /\ result[p] = "changed" /\ primary = json_dump(data[p])

\* C14: whatever step of a serialized Mutate fails or is killed, in every state
\* the primary or the backup file holds a complete ledger document that is the
\* snapshot the Mutate loaded or the document it computed; hence a ledger that
\* exists is never without a complete copy in one of the two files
C14_NoDataLoss ==
    /\ \A p \in Procs :
          InFlight(p) /\ Parses(pre[p]) =>
              \/ primary = pre[p]
              \/ backup = pre[p]
              \/ C14_PostWritten(p)
    /\ primary.kind # "absent" => Parses(primary) \/ Parses(backup)

\* the write failed part way: the backup is the snapshot loaded
C14_Witness ==
    \E p \in Procs :
        /\ pc[p] = "done" /\ result[p] = "dump_failed"
        /\ Parses(pre[p]) /\ primary = PartialFile /\ backup = pre[p]

\* killed after the truncation, and the copy failed leaving the ledger whole
C14_WitnessKilled ==
    \E p \in Procs :
        /\ pc[p] = "done" /\ result[p] = "killed"
        /\ primary = EmptyFile /\ backup = pre[p] /\ Parses(backup)
C14_WitnessBackupFailed ==
    \E p \in Procs :
        /\ pc[p] = "done" /\ result[p] = "backup_failed"
        /\ backup = PartialFile /\ primary = pre[p] /\ Parses(primary)

(* ------------------------------- C15 ----------------------------------- *)
\* the counts recomputed from the features of the ledger
C15_Counts(fs) ==
    [total_features |-> Len(fs),
     passing |-> Cardinality({i \in DOMAIN fs : PassesIs(fs[i], TRUE)}),
     failing |-> Cardinality({i \in DOMAIN fs : ~PassesIs(fs[i], TRUE)})]
C15_Agrees(doc, k) ==
    k \in DOMAIN doc["metadata"] /\ doc["metadata"][k] = JInt(C15_Counts(doc["features"])[k])
C15_Reported(k) ==
    \E n \in DOMAIN report.errors :
        report.errors[n].kind = "count_mismatch" /\ report.errors[n].field = k

\* C15: for a ledger with a metadata member the validator reports valid only if
\* metadata.total_features, passing and failing each equal the count recomputed
\* from the features; each count that differs yields an error and validity false
C15_CrossCheck ==
    (report.outcome = "returned" /\ "metadata" \in DOMAIN json_load(primary)) =>
        /\ report.is_valid =>
              \A k \in DOMAIN C15_Counts(<<>>) : C15_Agrees(json_load(primary), k)
        /\ \A k \in DOMAIN C15_Counts(<<>>) :
              ~C15_Agrees(json_load(primary), k) => ~report.is_valid /\ C15_Reported(k)

\* passing and failing stand swapped: the sum is right, both counts are reported
C15_Witness ==
    /\ report.outcome = "returned" /\ ~report.is_valid
    /\ json_load(primary) = with_metadata(<<validated_feature("F001", TRUE)>>, "swapped")
    /\ Len(report.errors) = 2
    /\ C15_Reported("passing") /\ C15_Reported("failing")

\* a ledger whose counts agree is reported valid
C15_WitnessValid ==
    /\ report.outcome = "returned" /\ report.is_valid
    /\ "metadata" \in DOMAIN json_load(primary)
    /\ Len(json_load(primary)["features"]) = 2

(* ------------------------------- C16 ----------------------------------- *)
C16_Has(f, kind, field) ==
    \E n \in DOMAIN report.errors :
        /\ report.errors[n].kind = kind /\ report.errors[n].field = field
        /\ report.errors[n].subject = f["id"]
\* every check the feature violates has its error in the report
C16_Enumerated(f) ==
    /\ f["description"].t # "str" => C16_Has(f, "not_string", "description")
    /\ f["description"] = JStr("Login") => C16_Has(f, "too_short", "description")
    /\ f["passes"].t # "bool" => C16_Has(f, "not_boolean", "passes")
    /\ f["priority"] = JStr("urgent") => C16_Has(f, "not_a_priority", "priority")
C16_FeaturesIsList == Parses(primary) /\ "features" \in DOMAIN json_load(primary)
C16_Validated == report.outcome # "none"

\* C16: for a ledger whose features member is a sequence, validation always
\* returns a result, and the result has an error for every violated check of
\* every feature: a mistyped description or passes suppresses no later check
C16_FullEnumeration ==
    (C16_Validated /\ C16_FeaturesIsList) =>
        /\ report.outcome = "returned"
        /\ \A i \in DOMAIN json_load(primary)["features"] :
              C16_Enumerated(json_load(primary)["features"][i])

\* what does hold: a validation that returns has enumerated every violated
\* check, and only a description without a length keeps it from returning
C16_EnumeratedWhenReturned ==
    (C16_Validated /\ C16_FeaturesIsList) =>
        LET fs == json_load(primary)["features"] IN
        /\ report.outcome = "returned" => \A i \in DOMAIN fs : C16_Enumerated(fs[i])
        /\ report.outcome = "raised" <=> \E i \in DOMAIN fs : fs[i]["description"] = JInt(5)

\* a mistyped passes in the first feature and a short description in the second
\* are both reported
C16_WitnessBoth ==
    /\ C16_Validated /\ C16_FeaturesIsList /\ report.outcome = "returned"
    /\ Len(json_load(primary)["features"]) = 2
    /\ json_load(primary)["features"][1]["passes"] = JStr("yes")
    /\ json_load(primary)["features"][2]["description"] = JStr("Login")
    /\ Len(report.errors) = 2

\* a features member that is not a list stops the validation with one error
C16_WitnessNotAList ==
    /\ C16_Validated /\ NotAList \in DOMAIN json_load(primary)
    /\ report.outcome = "returned" /\ ~report.is_valid /\ Len(report.errors) = 1

(* ------------------------------- C17 ----------------------------------- *)
C17_Valid(file) ==
    validate_feature_list(file).outcome = "returned" /\ validate_feature_list(file).is_valid
C17_Changed(p) == pc[p] = "done" /\ result[p] = "changed"

\* C17: after a successful changing Mutate on a ledger the validator reports
\* valid, the persisted ledger is again reported valid, a valid ledger without
\* a metadata member included
C17_PreservesValidity ==
    \A p \in Procs : C17_Changed(p) /\ C17_Valid(pre[p]) => C17_Valid(primary)

\* what does hold: validity is kept when the ledger had its metadata, which a
\* valid ledger has only with a project_name
C17_PreservedWithMetadata ==
    \A p \in Procs :
        (C17_Changed(p) /\ C17_Valid(pre[p]) /\ "metadata" \in DOMAIN json_load(pre[p]))
            => C17_Valid(primary)

C17_WitnessWithMetadata ==
    \E p \in Procs :
        /\ C17_Changed(p) /\ C17_Valid(pre[p]) /\ "metadata" \in DOMAIN json_load(pre[p])
        /\ C17_Valid(primary) /\ primary # pre[p]

(* ------------------------------- C18 ----------------------------------- *)
\* the ledger as it stands, or as it is being written
C18_Ledger == IF Parses(primary) THEN json_load(primary) ELSE data[Driver]
C18_FailingIn(doc) ==
    {i \in DOMAIN doc["features"] : ~PassesIs(doc["features"][i], TRUE)}
\* the record NextFeature returns: of the failing ones of least rank, the first
C18_Returned(doc) ==
    CHOOSE i \in C18_FailingIn(doc) :
        \A j \in C18_FailingIn(doc) :
            \/ C13_RankPresent(doc["features"][i]) < C13_RankPresent(doc["features"][j])
            \/ /\ C13_RankPresent(doc["features"][i]) = C13_RankPresent(doc["features"][j])
               /\ i <= j
C18_Complete == pc[Driver] = "idle" /\ Parses(primary) /\ C18_FailingIn(json_load(primary)) = {}
C18_UniqueIds ==
    \A i, j \in DOMAIN C18_Ledger["features"] :
        C18_Ledger["features"][i]["id"] = C18_Ledger["features"][j]["id"] => i = j

\* each Mutate of the loop, once ended, has changed the very record NextFeature
\* returned and lowered the failing count by exactly one
C18_StepChanges ==
    pc[Driver] = "done" =>
        /\ result[Driver] = "changed"
        /\ index[Driver] = C18_Returned(json_load(pre[Driver]))
        /\ Parses(primary)
        /\ Cardinality(C18_FailingIn(json_load(primary)))
               = Cardinality(C18_FailingIn(json_load(pre[Driver]))) - 1

C18_EveryStepChanges == C18_StepChanges
C18_ReachesComplete == <>C18_Complete

C19_NoPersistInProgress == \A p \in Procs : pc[p] # "dump"
\* the three counts of the file's metadata are those of the file's features
C19_CountsMatch(file) ==
    /\ Parses(file)
    /\ "metadata" \in DOMAIN json_load(file)
    /\ \A k \in DOMAIN C15_Counts(<<>>) : C15_Agrees(json_load(file), k)

\* C19: however the invocations interleave, in every state in which no persist
\* step is in progress the metadata counts of the primary file equal the counts
\* recomputed from the features of that same file
C19_CountsConsistent == C19_NoPersistInProgress => C19_CountsMatch(primary)

\* what does hold: a primary file that is a complete document has counts that
\* match its features, also after an update was lost
C19_ConsistentWhenComplete == Parses(primary) => C19_CountsMatch(primary)

\* both have written, one after the other, and the counts match the features
C19_WitnessComplete ==
    /\ AllChanged /\ C19_CountsMatch(primary)
    /\ primary # pre[lastDump]
    /\ \E q \in Procs \ {lastDump} : primary # json_dump(data[q])

\* both have written and the file is the shorter text with the tail of the longer
C19_WitnessMixed == AllChanged /\ primary.kind = "mixed"

=============================================================================
